---- MODULE Spec2Model ----
(***************************************************************************)
(* Model of homework.py: a bot that polls the homework-review API on a     *)
(* fixed interval and forwards status changes to one Telegram chat.        *)
(*                                                                         *)
(* Text.  A python str is a sequence of symbols.  Every fixed literal of   *)
(* the source is one symbol (named in capitals below); variable text (a    *)
(* homework name, the text of a requests exception) is a sequence of       *)
(* symbols and may contain the symbols of the literals.  `a in b` on str   *)
(* is contiguous containment of the sequences.                             *)
(*                                                                         *)
(* Values.  A decoded JSON value / python object is a tagged record:       *)
(*   [t |-> "null"], [t |-> "int", i |-> n], [t |-> "str", s |-> text],    *)
(*   [t |-> "list", l |-> sequence], [t |-> "dict", d |-> function].       *)
(*                                                                         *)
(* Calls.  A call either returns or raises:                                *)
(*   [raised |-> FALSE, value |-> v]  or  [raised |-> TRUE, exc |-> e],    *)
(* an exception being [type |-> class name, args |-> text].                *)
(***************************************************************************)
EXTENDS Integers, Sequences, FiniteSets, TLC

VARIABLES
  env,             \* the three module-level configuration values (lines 20-22)
  keyOrder,        \* iteration order of the set literal of check_response (line 95)
  pc,              \* position of main()
  timestamp,       \* main: the cursor
  sended_message,  \* main: the last-sent slot
  message,         \* main: the message being sent
  response,        \* main: the response of this cycle
  error,           \* the exception that left main() (or none)
  now,             \* int(time.time())
  cycle,           \* number of calls of get_api_answer made so far
  cur,             \* observation of the running cycle
  prev,            \* observation of the cycle before it
  last_attempt,    \* the text of the latest call of bot.send_message (or empty)
  call,            \* a function called on its own: its name and its argument
  ret              \* what that call did (or nothing yet)

vars == <<env, keyOrder, pc, timestamp, sended_message, message, response,
          error, now, cycle, cur, prev, last_attempt, call, ret>>

-----------------------------------------------------------------------------
(* Bounds of the model *)

MaxCycles == 3

-----------------------------------------------------------------------------
(* Python values *)

None == [t |-> "null"]
PyInt(n) == [t |-> "int", i |-> n]
PyStr(text) == [t |-> "str", s |-> text]
PyList(seq) == [t |-> "list", l |-> seq]
PyDict(f) == [t |-> "dict", d |-> f]

\* bool(v): the truth value python gives an object
Truthy(v) ==
  CASE v.t = "null" -> FALSE
    [] v.t = "int"  -> v.i # 0
    [] v.t = "str"  -> Len(v.s) > 0
    [] v.t = "list" -> Len(v.l) > 0
    [] v.t = "dict" -> DOMAIN v.d # {}

\* dict.get(key, default)
Get(dict, key, default) == IF key \in DOMAIN dict.d THEN dict.d[key] ELSE default

\* str `a in b`
IsIn(a, b) == \E i \in 0..(Len(b) - Len(a)) : SubSeq(b, i + 1, i + Len(a)) = a

\* f'{v}'
Format(v) ==
  CASE v.t = "str"  -> v.s
    [] v.t = "int"  -> <<ToString(v.i)>>
    [] v.t = "null" -> <<"None">>
    [] OTHER        -> <<"REPR">>

RECURSIVE Join(_, _)
\* sep.join(names)
Join(sep, names) ==
  IF Len(names) = 0 THEN <<>>
  ELSE IF Len(names) = 1 THEN <<names[1]>>
  ELSE <<names[1], sep>> \o Join(sep, Tail(names))

Return(v) == [raised |-> FALSE, value |-> v]
Raise(type, args) == [raised |-> TRUE, exc |-> [type |-> type, args |-> args]]
NoError == [type |-> "none", args |-> <<>>]

\* str(error): a KeyError shows the repr of its argument, the others the argument
StrOf(exc) ==
  IF exc.type = "KeyError" THEN <<"'">> \o exc.args \o <<"'">> ELSE exc.args

-----------------------------------------------------------------------------
(* Module constants *)

RETRY_PERIOD == 600
HOMEWORK_NUMBER == 0
HTTP_OK == 200

HOMEWORK_VERDICTS ==
  [approved  |-> <<"VERDICT_APPROVED">>,
   reviewing |-> <<"VERDICT_REVIEWING">>,
   rejected  |-> <<"VERDICT_REJECTED">>]

\* `status in HOMEWORK_VERDICTS`
InVerdicts(status) ==
  status.t = "str" /\ Len(status.s) = 1 /\ status.s[1] \in DOMAIN HOMEWORK_VERDICTS

TokenNames == <<"PRACTICUM_TOKEN", "TELEGRAM_TOKEN", "TELEGRAM_CHAT_ID">>

-----------------------------------------------------------------------------
(* check_tokens *)

\* as missing_tokens, testing `token is None` instead of `not token`
missing_tokens_none(tokens) ==
  SelectSeq(TokenNames, LAMBDA name : tokens[name].t = "null")

missing_tokens(tokens) ==
  SelectSeq(TokenNames, LAMBDA name : ~Truthy(tokens[name]))

check_tokens(tokens) ==
  IF Len(missing_tokens(tokens)) > 0
  THEN Raise("EnvironmentError",
             <<"MISSING_ENV: ">> \o Join(", ", missing_tokens(tokens)) \o <<".">>)
  ELSE Return(TRUE)

-----------------------------------------------------------------------------
(* send_message: `sent` is what bot.send_message(TELEGRAM_CHAT_ID, message)   *)
(* did: "ok", or the class of the exception it raised.  The value returned   *)
(* is the line that was logged.                                              *)

\* telebot.apihelper: ApiTelegramException and ApiHTTPException derive from
\* ApiException; requests: ConnectionError and Timeout derive from RequestException
IsInstance(type, class) ==
  \/ type = class
  \/ class = "ApiException" /\ type \in {"ApiTelegramException", "ApiHTTPException"}
  \/ class = "RequestException" /\ type \in {"requests.ConnectionError", "requests.Timeout"}

\* as send_message, without the `except requests.exceptions.RequestException`
send_message_leaky(sent) ==
  IF sent = "ok" THEN Return("debug: message sent")
  ELSE IF IsInstance(sent, "ApiException") THEN Return("error: telebot api")
  ELSE Raise(sent, <<"BOT_ERROR">>)

send_message(sent) ==
  IF sent = "ok" THEN Return("debug: message sent")
  ELSE IF IsInstance(sent, "ApiException") THEN Return("error: telebot api")
  ELSE IF IsInstance(sent, "RequestException") THEN Return("error: request")
  ELSE Raise(sent, <<"BOT_ERROR">>)

-----------------------------------------------------------------------------
(* get_api_answer: `net` is what requests.get did:                           *)
(*   [failed |-> TRUE, cause |-> text of the RequestException], or           *)
(*   [failed |-> FALSE, status_code |-> n, json |-> what response.json()     *)
(*    does: Return(value) or Raise("ValueError", ...)].                      *)

\* as get_api_answer, decoding the body before it looks at the status code
get_api_answer_parse_first(net) ==
  IF net.failed
  THEN Raise("ConnectionError", <<"REQUEST_ERROR: ">> \o net.cause \o <<".">>)
  ELSE IF net.json.raised
  THEN Raise("ValueError", <<"JSON_DECODE_ERROR">>)
  ELSE IF net.status_code # HTTP_OK
  THEN Raise("ApiHomeworkError",
             <<"HTTP_STATUS: ", ToString(net.status_code), ". EXPECTED: ",
               ToString(HTTP_OK)>>)
  ELSE Return(net.json.value)

get_api_answer(net) ==
  IF net.failed
  THEN Raise("ConnectionError", <<"REQUEST_ERROR: ">> \o net.cause \o <<".">>)
  ELSE IF net.status_code # HTTP_OK
  THEN Raise("ApiHomeworkError",
             <<"HTTP_STATUS: ", ToString(net.status_code), ". EXPECTED: ",
               ToString(HTTP_OK)>>)
  ELSE IF net.json.raised
  THEN Raise("ValueError", <<"JSON_DECODE_ERROR">>)
  ELSE Return(net.json.value)

-----------------------------------------------------------------------------
(* check_response: `order` is the order in which the set literal             *)
(* {'homeworks', 'current_date'} is iterated.                                *)

RECURSIVE FirstMissing(_, _)
\* the first key of `order` that the mapping lacks, or "" when it has them all
FirstMissing(order, resp) ==
  IF Len(order) = 0 THEN ""
  ELSE IF order[1] \notin DOMAIN resp.d THEN order[1]
  ELSE FirstMissing(Tail(order), resp)

\* as check_response, with the test of the list made before the test of the keys
check_response_list_first(resp, order) ==
  IF resp.t # "dict"
  THEN Raise("TypeError", <<"EXPECTED_DICT">>)
  ELSE IF Get(resp, "homeworks", None).t # "list"
  THEN Raise("TypeError", <<"HOMEWORKS_NOT_A_LIST">>)
  ELSE IF FirstMissing(order, resp) # ""
  THEN Raise("KeyError", <<"MISSING_KEY: ", FirstMissing(order, resp)>>)
  ELSE IF ~Truthy(Get(resp, "homeworks", None))
  THEN Raise("ValueError", <<"EMPTY_HOMEWORKS">>)
  ELSE Return(Get(resp, "homeworks", None))

check_response(resp, order) ==
  IF resp.t # "dict"
  THEN Raise("TypeError", <<"EXPECTED_DICT">>)
  ELSE IF FirstMissing(order, resp) # ""
  THEN Raise("KeyError", <<"MISSING_KEY: ", FirstMissing(order, resp)>>)
  ELSE IF Get(resp, "homeworks", None).t # "list"
  THEN Raise("TypeError", <<"HOMEWORKS_NOT_A_LIST">>)
  ELSE IF ~Truthy(Get(resp, "homeworks", None))
  THEN Raise("ValueError", <<"EMPTY_HOMEWORKS">>)
  ELSE Return(Get(resp, "homeworks", None))

-----------------------------------------------------------------------------
(* parse_status *)

\* as parse_status, with a status outside the table put into the message as it is
parse_status_passthrough(homework) ==
  IF ~Truthy(homework)
  THEN Raise("ValueError", <<"EMPTY_RECORD">>)
  ELSE IF homework.t # "dict"
  THEN Raise("AttributeError", <<"NO_ATTRIBUTE_GET">>)
  ELSE IF Get(homework, "homework_name", None).t = "null"
  THEN Raise("KeyError", <<"BAD_RECORD">>)
  ELSE Return(<<"STATUS_CHANGED \"">>
              \o Format(Get(homework, "homework_name", None))
              \o <<"\". ">>
              \o (IF InVerdicts(Get(homework, "status", None))
                  THEN HOMEWORK_VERDICTS[Get(homework, "status", None).s[1]]
                  ELSE Format(Get(homework, "status", None))))

parse_status(homework) ==
  IF ~Truthy(homework)
  THEN Raise("ValueError", <<"EMPTY_RECORD">>)
  ELSE IF homework.t # "dict"
  THEN Raise("AttributeError", <<"NO_ATTRIBUTE_GET">>)
  ELSE IF \/ Get(homework, "homework_name", None).t = "null"
          \/ ~InVerdicts(Get(homework, "status", None))
  THEN Raise("KeyError", <<"BAD_RECORD">>)
  ELSE Return(<<"STATUS_CHANGED \"">>
              \o Format(Get(homework, "homework_name", None))
              \o <<"\". ">>
              \o HOMEWORK_VERDICTS[Get(homework, "status", None).s[1]])

-----------------------------------------------------------------------------
(* What the environment can do *)

TokenValues == {None, PyStr(<<>>), PyStr(<<"secret">>)}
StartTimes == {1700000000}
KeyOrders == {<<"homeworks", "current_date">>, <<"current_date", "homeworks">>}

\* what bot.send_message does
SendOutcomes == {"ok", "ApiTelegramException", "requests.ConnectionError"}

Record(name, status) ==
  PyDict([homework_name |-> PyStr(name), status |-> PyStr(<<status>>)])

\* a name that holds the whole notification of "hw1" / approved
LongName == <<"x", "STATUS_CHANGED \"", "hw1", "\". ", "VERDICT_APPROVED">>

Body(homeworks, date) == PyDict([homeworks |-> homeworks, current_date |-> PyInt(date)])

\* decoded bodies that pass check_response and parse_status
GoodBodies ==
  { Body(PyList(<<Record(<<"hw1">>, "approved")>>), 1700000100),
    Body(PyList(<<Record(<<"hw1">>, "approved")>>), 1700000200),
    Body(PyList(<<Record(<<"hw1">>, "rejected"), Record(<<"hw1">>, "reviewing")>>),
         1700000100),
    Body(PyList(<<Record(LongName, "reviewing")>>), 1700000200) }

\* decoded bodies that check_response or parse_status refuses
BadBodies ==
  { PyList(<<>>),
    PyDict(<<>>),
    PyDict([current_date |-> PyInt(1700000100)]),
    PyDict([homeworks |-> PyList(<<Record(<<"hw1">>, "approved")>>)]),
    Body(PyDict(<<>>), 1700000100),
    Body(PyList(<<>>), 1700000200),
    Body(PyList(<<PyDict(<<>>)>>), 1700000100),
    Body(PyList(<<PyStr(<<"hw1">>)>>), 1700000100),
    Body(PyList(<<PyDict([status |-> PyStr(<<"approved">>)])>>), 1700000100),
    Body(PyList(<<Record(<<"hw1">>, "unknown"), Record(<<"hw1">>, "approved")>>),
         1700000100) }

\* what requests.get and response.json() do
NetOutcomes ==
  { [failed |-> TRUE, cause |-> <<"timed out">>],
    [failed |-> TRUE, cause |-> <<"timed out", ".", " retries exceeded">>],
    [failed |-> FALSE, status_code |-> 500, json |-> Raise("ValueError", <<>>)],
    [failed |-> FALSE, status_code |-> 200, json |-> Raise("ValueError", <<>>)] }
  \cup { [failed |-> FALSE, status_code |-> 200, json |-> Return(b)] :
           b \in GoodBodies \cup BadBodies }

-----------------------------------------------------------------------------
(* The functions called on their own *)

NoCall == [fn |-> "none"]
NoReturn == [done |-> FALSE]
Returned(out) == [done |-> TRUE, out |-> out]

\* a key a mapping does not hold
Absent == [t |-> "absent"]

\* the mapping that holds the keys whose values are not Absent
DictOf(items) ==
  PyDict([k \in {key \in DOMAIN items : items[key] # Absent} |-> items[k]])

\* what a response can hold under `homeworks` and under `current_date`
HomeworksValues ==
  { Absent, None, PyInt(5), PyStr(<<"hw1">>), PyDict(<<>>),
    Record(<<"hw1">>, "approved"), PyList(<<>>),
    PyList(<<Record(<<"hw1">>, "approved")>>),
    PyList(<<PyDict(<<>>), Record(<<"hw1">>, "rejected")>>) }

CurrentDateValues == {Absent, None, PyInt(0), PyInt(1700000100)}

\* arguments of check_response
Responses ==
  { None, PyInt(0), PyStr(<<"homeworks">>), PyList(<<>>),
    PyList(<<Record(<<"hw1">>, "approved")>>) }
  \cup { DictOf([homeworks |-> h, current_date |-> d]) :
           h \in HomeworksValues, d \in CurrentDateValues }

NameValues ==
  {Absent, None, PyStr(<<>>), PyStr(<<"hw1">>), PyStr(LongName), PyInt(7)}

StatusValues ==
  { Absent, None, PyStr(<<>>), PyStr(<<"approved">>), PyStr(<<"reviewing">>),
    PyStr(<<"rejected">>), PyStr(<<"unknown">>), PyStr(<<"approved", " ">>),
    PyInt(1) }

\* arguments of parse_status
Homeworks ==
  { None, PyInt(0), PyInt(1), PyStr(<<>>), PyStr(<<"hw1">>), PyList(<<>>),
    PyList(<<PyStr(<<"hw1">>)>>) }
  \cup { DictOf([homework_name |-> n, status |-> st]) :
           n \in NameValues, st \in StatusValues }
  \cup { PyDict([id |-> PyInt(1)]) }

\* what requests.get and response.json() do, for get_api_answer
Answers ==
  { [failed |-> TRUE, cause |-> c] :
      c \in {<<>>, <<"timed out">>, <<"timed out", ".", " retries exceeded">>} }
  \cup { [failed |-> FALSE, status_code |-> code, json |-> j] :
           code \in {200, 201, 204, 301, 404, 500},
           j \in { Raise("ValueError", <<>>), Return(None), Return(PyList(<<>>)),
                   Return(Body(PyList(<<>>), 1700000100)) } }

Calls ==
  { [fn |-> "check_response", arg |-> r] : r \in Responses }
  \cup { [fn |-> "parse_status", arg |-> h] : h \in Homeworks }
  \cup { [fn |-> "get_api_answer", arg |-> a] : a \in Answers }

\* lines 93-109
CallCheckResponse ==
  /\ call.fn = "check_response" /\ ~ret.done
  /\ ret' = Returned(check_response(call.arg, keyOrder))
  /\ UNCHANGED <<call, env, keyOrder, pc, timestamp, sended_message, message,
                 response, error, now, cycle, cur, prev, last_attempt>>

\* lines 112-122
CallParseStatus ==
  /\ call.fn = "parse_status" /\ ~ret.done
  /\ ret' = Returned(parse_status(call.arg))
  /\ UNCHANGED <<call, env, keyOrder, pc, timestamp, sended_message, message,
                 response, error, now, cycle, cur, prev, last_attempt>>

\* lines 70-90
CallGetApiAnswer ==
  /\ call.fn = "get_api_answer" /\ ~ret.done
  /\ ret' = Returned(get_api_answer(call.arg))
  /\ UNCHANGED <<call, env, keyOrder, pc, timestamp, sended_message, message,
                 response, error, now, cycle, cur, prev, last_attempt>>

-----------------------------------------------------------------------------
(* main *)

\* observation of one cycle of the loop (nothing has happened yet): the cursor
\* given to get_api_answer, how the try block ended and where it failed, the
\* text it produced (notification or diagnostic), the response's current_date,
\* the calls of bot.send_message, the lines logged, the sleeps, the last-sent
\* slot and the text of the latest call of bot.send_message when the cycle
\* began, and the diagnostic of the cycle before
NoCycle ==
  [polled |-> FALSE, cursor |-> None, result |-> "none", failed_in |-> "none",
   text |-> <<>>, current_date |-> None, attempts |-> <<>>, log |-> {},
   sleeps |-> <<>>, last_sent |-> <<>>, attempted_before |-> <<>>,
   prev_failure |-> <<>>]

\* a call of bot.send_message: what for, the text, whether it was delivered
Attempt(kind, text, sent) == [kind |-> kind, text |-> text, delivered |-> sent = "ok"]

\* exceptions.py is not part of the source tree: ApiHomeworkError is taken to
\* derive from Exception, as every recoverable failure of the taxonomy does
ApiHomeworkError == [base |-> "Exception"]

IsException(type) == type # "ApiHomeworkError" \/ ApiHomeworkError.base = "Exception"

\* as Suppressed, with the check left out
Suppressed_never(msg, last) == FALSE

\* lines 140 and 158: `message not in sended_message` is false
Suppressed(msg, last) == IsIn(msg, last)

\* as NextCursor, taking the current time whatever the response holds
NextCursor_now(resp, t) == PyInt(t)

\* line 149
NextCursor(resp, t) == Get(resp, "current_date", PyInt(t))

\* line 156
Diagnostic(exc) == <<"FAILURE: ">> \o StrOf(exc)

\* as Except, with the cursor set to the current time by the handlers
Except_reset(exc, stage, c) ==
  /\ timestamp' = PyInt(now)
  /\ sended_message' = sended_message
  /\ IF IsInstance(exc.type, "ApiTelegramException")
     THEN /\ message' = message
          /\ error' = error
          /\ pc' = "sleep"
          /\ cur' = [c EXCEPT !.log = @ \cup {"error: send (main)"}]
     ELSE IF IsException(exc.type)
     THEN /\ message' = Diagnostic(exc)
          /\ error' = error
          /\ pc' = IF Suppressed(Diagnostic(exc), sended_message) THEN "sleep" ELSE "report"
          /\ cur' = [c EXCEPT !.result = "failure", !.failed_in = stage,
                              !.text = Diagnostic(exc),
                              !.log = @ \cup {"error: failure"}]
     ELSE /\ message' = message
          /\ error' = exc
          /\ pc' = "sleep"
          /\ cur' = c

\* lines 150-158: an exception raised in the try block reaches the handlers
Except(exc, stage, c) ==
  /\ timestamp' = timestamp
  /\ sended_message' = sended_message
  /\ IF IsInstance(exc.type, "ApiTelegramException")
     THEN /\ message' = message
          /\ error' = error
          /\ pc' = "sleep"
          /\ cur' = [c EXCEPT !.log = @ \cup {"error: send (main)"}]
     ELSE IF IsException(exc.type)
     THEN /\ message' = Diagnostic(exc)
          /\ error' = error
          /\ pc' = IF Suppressed(Diagnostic(exc), sended_message) THEN "sleep" ELSE "report"
          /\ cur' = [c EXCEPT !.result = "failure", !.failed_in = stage,
                              !.text = Diagnostic(exc),
                              !.log = @ \cup {"error: failure"}]
     ELSE /\ message' = message
          /\ error' = exc
          /\ pc' = "sleep"
          /\ cur' = c

\* line 127-130
Startup ==
  /\ pc = "start"
  /\ IF check_tokens(env).raised
     THEN /\ pc' = "aborted"
          /\ error' = check_tokens(env).exc
          /\ cur' = [cur EXCEPT !.log = @ \cup {"critical: missing tokens"}]
          /\ UNCHANGED <<timestamp, sended_message>>
     ELSE /\ pc' = "poll"
          /\ sended_message' = <<>>
          /\ timestamp' = PyInt(now)
          /\ UNCHANGED <<error, cur>>
  /\ UNCHANGED <<call, ret, env, keyOrder, message, response, now, cycle, prev, last_attempt>>

\* lines 133-140 and 143-149: one pass of the try block up to the send
PollOn(net) ==
  /\ pc = "poll"
  /\ cycle < MaxCycles
  /\ cycle' = cycle + 1
  /\ prev' = cur
  /\ LET c0 == [NoCycle EXCEPT !.polled = TRUE, !.cursor = timestamp,
                               !.last_sent = sended_message,
                               !.attempted_before = last_attempt,
                               !.prev_failure = IF cur.result = "failure"
                                                THEN cur.text ELSE <<>>]
         r1 == get_api_answer(net)
     IN IF r1.raised
        THEN /\ response' = response
             /\ Except(r1.exc, "get_api_answer", c0)
        ELSE /\ response' = r1.value
             /\ LET r2 == check_response(r1.value, keyOrder)
                    c1 == [c0 EXCEPT !.current_date = Get(r1.value, "current_date", None)]
                IN IF r2.raised
                   THEN Except(r2.exc, "check_response", c0)
                   ELSE IF ~Truthy(r1.value.d["homeworks"])
                   THEN /\ pc' = "sleep"
                        /\ cur' = [c1 EXCEPT !.result = "empty",
                                             !.log = @ \cup {"debug: empty"}]
                        /\ UNCHANGED <<timestamp, sended_message, message, error>>
                   ELSE LET r3 == parse_status(r1.value.d["homeworks"].l[HOMEWORK_NUMBER + 1])
                        IN IF r3.raised
                           THEN Except(r3.exc, "parse_status", c1)
                           ELSE /\ message' = r3.value
                                /\ UNCHANGED <<sended_message, error>>
                                /\ IF ~Suppressed(r3.value, sended_message)
                                   THEN /\ pc' = "deliver"
                                        /\ timestamp' = timestamp
                                        /\ cur' = [c1 EXCEPT !.result = "formatted",
                                                             !.text = r3.value]
                                   ELSE /\ pc' = "sleep"
                                        /\ timestamp' = NextCursor(r1.value, now)
                                        /\ cur' = [c1 EXCEPT !.result = "formatted",
                                                             !.text = r3.value,
                                                             !.log = @ \cup {"info: duplicate"}]
  /\ UNCHANGED <<call, ret, env, keyOrder, now, last_attempt>>

Poll == \E net \in NetOutcomes : PollOn(net)

\* lines 141-142 and 149: the homework notification is sent
DeliverOn(sent) ==
  /\ pc = "deliver"
  /\ LET r == send_message(sent)
         c1 == [cur EXCEPT !.attempts = Append(@, Attempt("homework", message, sent))]
     IN IF r.raised
        THEN Except(r.exc, "send_message", c1)
        ELSE /\ sended_message' = message
             /\ timestamp' = NextCursor(response, now)
             /\ pc' = "sleep"
             /\ cur' = [c1 EXCEPT !.log = @ \cup {r.value}]
             /\ UNCHANGED <<message, error>>
  /\ last_attempt' = message
  /\ UNCHANGED <<call, ret, env, keyOrder, response, now, cycle, prev>>

Deliver == \E sent \in SendOutcomes : DeliverOn(sent)

\* as ReportOn, without line 161: the diagnostic is not stored as last sent
ReportOn_forget(sent) ==
  /\ pc = "report"
  /\ last_attempt' = message
  /\ pc' = "sleep"
  /\ LET r == send_message(sent)
         c1 == [cur EXCEPT !.attempts = Append(@, Attempt("diagnostic", message, sent))]
     IN IF ~r.raised
        THEN /\ sended_message' = sended_message
             /\ cur' = [c1 EXCEPT !.log = @ \cup {r.value}]
             /\ error' = error
        ELSE IF IsInstance(r.exc.type, "ApiTelegramException")
        THEN /\ sended_message' = sended_message
             /\ cur' = [c1 EXCEPT !.log = @ \cup {"error: send (main)"}]
             /\ error' = error
        ELSE /\ sended_message' = sended_message
             /\ cur' = c1
             /\ error' = r.exc
  /\ UNCHANGED <<call, ret, env, keyOrder, timestamp, message, response, now, cycle, prev>>

\* lines 159-166: the diagnostic is sent
ReportOn(sent) ==
  /\ pc = "report"
  /\ last_attempt' = message
  /\ pc' = "sleep"
  /\ LET r == send_message(sent)
         c1 == [cur EXCEPT !.attempts = Append(@, Attempt("diagnostic", message, sent))]
     IN IF ~r.raised
        THEN /\ sended_message' = message
             /\ cur' = [c1 EXCEPT !.log = @ \cup {r.value}]
             /\ error' = error
        ELSE IF IsInstance(r.exc.type, "ApiTelegramException")
        THEN /\ sended_message' = sended_message
             /\ cur' = [c1 EXCEPT !.log = @ \cup {"error: send (main)"}]
             /\ error' = error
        ELSE /\ sended_message' = sended_message
             /\ cur' = c1
             /\ error' = r.exc
  /\ UNCHANGED <<call, ret, env, keyOrder, timestamp, message, response, now, cycle, prev>>

Report == \E sent \in SendOutcomes : ReportOn(sent)

\* as Sleep, with the wait in an `else` block: no wait after a failure
Sleep_else ==
  /\ pc = "sleep"
  /\ cur' = IF cur.result = "failure" THEN cur
            ELSE [cur EXCEPT !.sleeps = Append(@, RETRY_PERIOD),
                             !.log = @ \cup {"info: wait"}]
  /\ now' = IF cur.result = "failure" THEN now ELSE now + RETRY_PERIOD
  /\ pc' = IF error = NoError THEN "poll" ELSE "crashed"
  /\ message' = <<>>
  /\ response' = None
  /\ UNCHANGED <<call, ret, env, keyOrder, timestamp, sended_message, error, cycle, prev, last_attempt>>

\* lines 167-171: the finally block, then the loop or the exception goes on.
\* Every pass of the loop assigns response (line 133) and message (line 139 or
\* 156) before it reads them, so what they hold over the sleep is never read:
\* they are forgotten here.
Sleep ==
  /\ pc = "sleep"
  /\ cur' = [cur EXCEPT !.sleeps = Append(@, RETRY_PERIOD),
                        !.log = @ \cup {"info: wait"}]
  /\ now' = now + RETRY_PERIOD
  /\ pc' = IF error = NoError THEN "poll" ELSE "crashed"
  /\ message' = <<>>
  /\ response' = None
  /\ UNCHANGED <<call, ret, env, keyOrder, timestamp, sended_message, error, cycle, prev, last_attempt>>

Init ==
  /\ env \in [{"PRACTICUM_TOKEN", "TELEGRAM_TOKEN", "TELEGRAM_CHAT_ID"} -> TokenValues]
  /\ keyOrder \in KeyOrders
  /\ now \in StartTimes
  /\ pc = "start"
  /\ timestamp = None
  /\ sended_message = <<>>
  /\ message = <<>>
  /\ response = None
  /\ error = NoError
  /\ cycle = 0
  /\ cur = NoCycle
  /\ prev = NoCycle
  /\ last_attempt = <<>>
  /\ call = NoCall
  /\ ret = NoReturn

Next == Startup \/ Poll \/ Deliver \/ Report \/ Sleep

Spec == Init /\ [][Next]_vars

\* every call and every sleep returns
FairSpec == Spec /\ WF_vars(Poll) /\ WF_vars(Deliver) /\ WF_vars(Report) /\ WF_vars(Sleep)

\* one function is called once, on any argument, outside the loop
CallInit ==
  /\ env = [name \in {"PRACTICUM_TOKEN", "TELEGRAM_TOKEN", "TELEGRAM_CHAT_ID"}
             |-> PyStr(<<"secret">>)]
  /\ keyOrder \in KeyOrders
  /\ now \in StartTimes
  /\ pc = "start"
  /\ timestamp = None
  /\ sended_message = <<>>
  /\ message = <<>>
  /\ response = None
  /\ error = NoError
  /\ cycle = 0
  /\ cur = NoCycle
  /\ prev = NoCycle
  /\ last_attempt = <<>>
  /\ call \in Calls
  /\ ret = NoReturn

CallNext == CallCheckResponse \/ CallParseStatus \/ CallGetApiAnswer

CallSpec == CallInit /\ [][CallNext]_vars

-----------------------------------------------------------------------------
(* Vocabulary of the properties *)

Cycles == {prev, cur}

\* the cycle has left the try block and its handlers
CycleOver == pc \in {"sleep", "poll", "crashed"}

\* c is a cycle whose try block and handlers are over
Over(c) == c.polled /\ (c = cur => CycleOver)

Attempts(c, kind) == {i \in DOMAIN c.attempts : c.attempts[i].kind = kind}

FailedAttempt(c, kind) == \E i \in Attempts(c, kind) : ~c.attempts[i].delivered

DeliveredAttempt(c, kind) == \E i \in Attempts(c, kind) : c.attempts[i].delivered

\* get_api_answer, check_response or parse_status failed in cycle c
FetchFailed(c) ==
  c.result = "failure" /\ c.failed_in \in {"get_api_answer", "check_response", "parse_status"}

\* configuration values that are missing or empty
Missing == {name \in DOMAIN env : env[name] = None \/ env[name] = PyStr(<<>>)}

-----------------------------------------------------------------------------
\* C1: when the delivery attempt of a homework notification fails, the next
\* poll is made with the cursor of the current poll.
C1_FailedDeliveryKeepsCursor ==
  (prev.polled /\ cur.polled /\ FailedAttempt(prev, "homework"))
    => cur.cursor = prev.cursor

\* C2: after a cycle whose homework notification was delivered, the next poll
\* is made with the current_date of that cycle's response.
C2_DeliveredAdvancesCursor ==
  (prev.polled /\ cur.polled /\ prev.result = "formatted"
     /\ DeliveredAttempt(prev, "homework"))
    => cur.cursor = prev.current_date

C2_Witness ==
  /\ prev.polled /\ cur.polled /\ prev.result = "formatted"
  /\ DeliveredAttempt(prev, "homework")
  /\ prev.cursor = PyInt(1700000000)
  /\ cur.cursor = PyInt(1700000100)

\* C3 as stated: two consecutive cycles that format the same message make
\* exactly one delivery attempt, in the first of them.
C3_ExactlyOneAttempt ==
  (prev.polled /\ Over(cur) /\ prev.result = "formatted" /\ cur.result = "formatted"
     /\ prev.text = cur.text)
    => (Len(prev.attempts) = 1 /\ Len(cur.attempts) = 0)

\* C3 as amended: two consecutive cycles that format the same message make no
\* delivery attempt in the second and at most one in the first, which makes
\* one exactly when the message is not contained in the last-sent text it
\* starts with.
C3_AtMostOneAttempt ==
  (prev.polled /\ Over(cur) /\ prev.result = "formatted" /\ cur.result = "formatted"
     /\ prev.text = cur.text)
    => /\ Len(cur.attempts) = 0
       /\ Len(prev.attempts) = (IF IsIn(prev.text, prev.last_sent) THEN 0 ELSE 1)
       /\ \A i \in DOMAIN prev.attempts :
            prev.attempts[i].kind = "homework" /\ prev.attempts[i].text = prev.text

C3_Witness ==
  /\ prev.polled /\ Over(cur) /\ prev.result = "formatted" /\ cur.result = "formatted"
  /\ prev.text = cur.text
  /\ Len(prev.attempts) = 1 /\ Len(cur.attempts) = 0
  /\ "info: duplicate" \in cur.log

\* C4: a cycle in which get_api_answer, check_response or parse_status fails
\* leaves the cursor unchanged, goes on to the sleep, and the next poll is made
\* with the same cursor.
C4_FailureKeepsCursor ==
  /\ (cur.polled /\ FetchFailed(cur))
       => /\ timestamp = cur.cursor
          /\ \/ pc \in {"report", "sleep"}
             \/ pc = "poll" /\ Len(cur.sleeps) = 1
  /\ (prev.polled /\ cur.polled /\ FetchFailed(prev))
       => (cur.cursor = prev.cursor /\ Len(prev.sleeps) = 1)

C4_Witness ==
  /\ prev.polled /\ cur.polled /\ FetchFailed(prev)
  /\ prev.failed_in = "parse_status"
  /\ prev.current_date # None /\ prev.current_date # prev.cursor
  /\ cur.cursor = prev.cursor

\* the texts given to bot.send_message before the running cycle, as far back
\* as the observations reach: the three latest of them
SentBefore ==
  ({cur.attempted_before, prev.attempted_before}
     \cup {prev.attempts[i].text : i \in DOMAIN prev.attempts}) \ {<<>>}

\* C5 as stated: over a run, no diagnostic text is sent more than once,
\* whatever was sent in between.
C5_OncePerText ==
  \A i \in Attempts(cur, "diagnostic") : cur.attempts[i].text \notin SentBefore

\* C5 as amended: a diagnostic is sent at most once in its cycle and only when
\* its text is not contained in the last-sent text; the same text can be sent
\* again in a later cycle, once another text has been sent in between.
C5_OnlyIfNotLastSent ==
  /\ pc = "report" => ~IsIn(message, sended_message)
  /\ \A c \in Cycles :
       /\ Cardinality(Attempts(c, "diagnostic")) <= 1
       /\ \A i \in Attempts(c, "diagnostic") :
            /\ c.attempts[i].text = c.text
            /\ ~IsIn(c.text, c.last_sent)

C5_Witness ==
  /\ \E i \in Attempts(cur, "diagnostic") : cur.attempts[i].text = prev.attempted_before
  /\ Attempts(prev, "diagnostic") # {}
  /\ prev.text # cur.text

\* C6: when the same failure occurs in consecutive cycles, the diagnostic is
\* sent in the first of them and in none of the following, and the failure is
\* logged in each.
C6_FirstOfRunOnly ==
  (prev.polled /\ Over(cur) /\ prev.result = "failure" /\ cur.result = "failure"
     /\ prev.text = cur.text)
    => /\ Len(cur.attempts) = 0
       /\ "error: failure" \in prev.log /\ "error: failure" \in cur.log
       /\ (prev.prev_failure # prev.text)
            => (Len(prev.attempts) = 1 /\ prev.attempts[1].text = prev.text)

\* C7: every cycle ends with exactly one sleep of 600 seconds, whichever way
\* it went: no sleep before the try block and its handlers are over, and one
\* between any two calls of get_api_answer.
C7_OneSleepPerCycle ==
  /\ pc \in {"deliver", "report", "sleep"} => cur.sleeps = <<>>
  /\ (pc \in {"poll", "crashed"} /\ cur.polled) => cur.sleeps = <<600>>
  /\ (prev.polled /\ cur.polled) => prev.sleeps = <<600>>
  /\ cur.sleeps # <<>> => "info: wait" \in cur.log

C7_Witness ==
  /\ prev.polled /\ cur.polled
  /\ prev.sleeps = <<600>>
  /\ FailedAttempt(prev, "diagnostic")
  /\ DeliveredAttempt(cur, "homework")
  /\ pc = "poll" /\ cur.sleeps = <<600>>

\* C8: with some configuration values missing or empty, check_tokens fails
\* naming exactly those and main() stops before any fetch, send or sleep; with
\* none missing it succeeds and the loop starts.
C8_StartupNamesMissing ==
  pc # "start" =>
    IF Missing # {}
    THEN /\ pc = "aborted"
         /\ error.type = "EnvironmentError"
         /\ {error.args[i] : i \in DOMAIN error.args} \cap DOMAIN env = Missing
         /\ "critical: missing tokens" \in cur.log
         /\ cycle = 0 /\ ~cur.polled
         /\ cur.attempts = <<>> /\ cur.sleeps = <<>>
         /\ now \in StartTimes
    ELSE /\ pc \in {"poll", "deliver", "report", "sleep"}
         /\ error = NoError

C8_Witness ==
  /\ pc = "aborted"
  /\ env["PRACTICUM_TOKEN"] = None
  /\ env["TELEGRAM_TOKEN"] # None /\ env["TELEGRAM_TOKEN"] # PyStr(<<>>)
  /\ env["TELEGRAM_CHAT_ID"] = PyStr(<<>>)
  /\ error.args = <<"MISSING_ENV: ", "PRACTICUM_TOKEN", ", ", "TELEGRAM_CHAT_ID", ".">>

\* C9: a failed delivery of a diagnostic does not leave main(): it is caught
\* and logged, the cycle goes on to the sleep and the loop to the next poll.
C9_DiagnosticFailureCaught ==
  /\ pc # "crashed"
  /\ error = NoError \/ pc = "aborted"
  /\ \A c \in Cycles :
       FailedAttempt(c, "diagnostic")
         => /\ {"error: telebot api", "error: request"} \cap c.log # {}
            /\ c = cur => (pc = "sleep" \/ (pc = "poll" /\ Len(cur.sleeps) = 1))

C9_Witness ==
  /\ FailedAttempt(prev, "diagnostic")
  /\ "error: request" \in prev.log
  /\ cur.polled

\* C10: once startup has succeeded, whatever failure a cycle meets, the loop
\* polls again, given that every call and every sleep returns.
C10_PollsAgain == [](pc \in {"deliver", "report", "sleep", "crashed"} => <>(pc = "poll"))

C10_Witness ==
  /\ pc = "poll" /\ cycle = 2
  /\ prev.result = "failure" /\ FailedAttempt(prev, "diagnostic")
  /\ FailedAttempt(cur, "homework")

-----------------------------------------------------------------------------
\* the response holds `homeworks` and the list under it is empty
EmptyHomeworks(resp) ==
  resp.t = "dict" /\ "homeworks" \in DOMAIN resp.d /\ resp.d["homeworks"] = PyList(<<>>)

\* C11: a poll whose response has an empty `homeworks` list causes no call of
\* bot.send_message in that cycle.
C11_EmptyListSendsNothing ==
  (cur.polled /\ EmptyHomeworks(response)) => cur.attempts = <<>>

-----------------------------------------------------------------------------
\* the call did not return: it raised an exception of the type
Rejected(out, type) == out.raised /\ out.exc.type = type

RequiredKeys == {"homeworks", "current_date"}

\* check_response returns, and returns the list, exactly for a mapping with
\* both required keys and a non-empty list under `homeworks`
ReturnsTheList(r, o) ==
  /\ ~o.raised <=> /\ r.t = "dict"
                   /\ RequiredKeys \subseteq DOMAIN r.d
                   /\ r.d["homeworks"].t = "list"
                   /\ r.d["homeworks"].l # <<>>
  /\ ~o.raised => o.value = r.d["homeworks"]

\* C12 as stated: check_response rejects a non-mapping with a TypeError, else a
\* mapping without `homeworks` with a KeyError that names `homeworks`, else a
\* mapping whose `homeworks` is not a list with a TypeError, and returns the
\* list only for a mapping with both keys and a non-empty list.
C12_KeyThenList ==
  (call.fn = "check_response" /\ ret.done) =>
    LET r == call.arg
        o == ret.out
    IN /\ r.t # "dict" => Rejected(o, "TypeError")
       /\ (r.t = "dict" /\ "homeworks" \notin DOMAIN r.d)
            => (Rejected(o, "KeyError") /\ o.exc.args = <<"MISSING_KEY: ", "homeworks">>)
       /\ (r.t = "dict" /\ "homeworks" \in DOMAIN r.d /\ r.d["homeworks"].t # "list")
            => Rejected(o, "TypeError")
       /\ ReturnsTheList(r, o)

\* C12 as amended: check_response rejects a non-mapping with a TypeError, else
\* a mapping without `homeworks` or without `current_date` with a KeyError
\* that names a required key the mapping lacks, else a mapping whose
\* `homeworks` is not a list with a TypeError, else an empty list with a
\* ValueError, and returns the list exactly for a mapping with both keys and a
\* non-empty list.
C12_KeysThenList ==
  (call.fn = "check_response" /\ ret.done) =>
    LET r == call.arg
        o == ret.out
    IN /\ r.t # "dict" => Rejected(o, "TypeError")
       /\ (r.t = "dict" /\ ~(RequiredKeys \subseteq DOMAIN r.d))
            => /\ Rejected(o, "KeyError")
               /\ \E key \in RequiredKeys \ DOMAIN r.d :
                    o.exc.args = <<"MISSING_KEY: ", key>>
       /\ (r.t = "dict" /\ RequiredKeys \subseteq DOMAIN r.d /\ r.d["homeworks"].t # "list")
            => Rejected(o, "TypeError")
       /\ (r.t = "dict" /\ RequiredKeys \subseteq DOMAIN r.d /\ r.d["homeworks"] = PyList(<<>>))
            => Rejected(o, "ValueError")
       /\ ReturnsTheList(r, o)

C12_Witness ==
  /\ call.fn = "check_response" /\ ret.done
  /\ call.arg = PyDict([homeworks |-> PyInt(5)])
  /\ ret.out = Raise("KeyError", <<"MISSING_KEY: ", "current_date">>)

-----------------------------------------------------------------------------
\* C13: parse_status returns exactly for a non-empty record that has a
\* `homework_name` and a `status` among approved, reviewing and rejected; what
\* it returns contains the name and ends with the verdict text of the status;
\* every other record makes it fail, an empty one too, and no status outside
\* the table gets into a message.
C13_ClosedVerdictTable ==
  (call.fn = "parse_status" /\ ret.done) =>
    LET h == call.arg
        o == ret.out
        ok == /\ h.t = "dict" /\ DOMAIN h.d # {}
              /\ "homework_name" \in DOMAIN h.d /\ h.d["homework_name"] # None
              /\ "status" \in DOMAIN h.d
              /\ h.d["status"] \in {PyStr(<<"approved">>), PyStr(<<"reviewing">>),
                                    PyStr(<<"rejected">>)}
    IN /\ ~o.raised <=> ok
       /\ ok => /\ IsIn(Format(h.d["homework_name"]), o.value)
                /\ IsIn(HOMEWORK_VERDICTS[h.d["status"].s[1]], o.value)
                /\ LET verdict == HOMEWORK_VERDICTS[h.d["status"].s[1]]
                   IN SubSeq(o.value, Len(o.value) - Len(verdict) + 1, Len(o.value))
                        = verdict
       /\ ~Truthy(h) => Rejected(o, "ValueError")
       /\ (h.t = "dict" /\ DOMAIN h.d # {} /\ ~ok) => Rejected(o, "KeyError")

C13_Witness ==
  /\ call.fn = "parse_status" /\ ret.done
  /\ call.arg = Record(LongName, "reviewing")
  /\ ret.out = Return(<<"STATUS_CHANGED \"">> \o LongName
                        \o <<"\". ", "VERDICT_REVIEWING">>)

-----------------------------------------------------------------------------
\* C14: the last-sent text is empty or the text of the latest delivered
\* message: it changes in a cycle only to a text that a call of
\* bot.send_message of that cycle delivered.
C14_StoredOnlyIfDelivered ==
  (cur.polled /\ sended_message # cur.last_sent)
    => \E i \in DOMAIN cur.attempts :
         cur.attempts[i].delivered /\ cur.attempts[i].text = sended_message

\* C15: when the delivery of a homework notification fails in a cycle and the
\* next cycle formats the same message, the next cycle calls bot.send_message
\* with that message again.
C15_FailedDeliveryRetried ==
  (prev.polled /\ FailedAttempt(prev, "homework") /\ Over(cur)
     /\ cur.result = "formatted" /\ cur.text = prev.text)
    => \E i \in Attempts(cur, "homework") : cur.attempts[i].text = cur.text

\* C16: a formatted homework message is not sent exactly when it is equal to
\* the last-sent text (a proper part of the last-sent text is sent), and when
\* it is not sent the cursor is set to the current_date of the response.
C16_SkippedIffEqual ==
  (Over(cur) /\ cur.result = "formatted")
    => /\ cur.attempts = <<>> <=> cur.text = cur.last_sent
       /\ cur.attempts = <<>> => timestamp = cur.current_date

\* the response lacks `current_date` and nothing else: its first record is one
\* that parse_status formats
OnlyDateMissing(resp) ==
  /\ resp.t = "dict" /\ DOMAIN resp.d = {"homeworks"}
  /\ resp.d["homeworks"].t = "list" /\ resp.d["homeworks"].l # <<>>
  /\ ~parse_status(resp.d["homeworks"].l[1]).raised

\* C17: a response without `current_date` gets its homework notification
\* formatted, and when the notification is delivered the cursor is set to the
\* current time.
C17_FallbackToCurrentTime ==
  (cur.polled /\ pc = "sleep" /\ OnlyDateMissing(response))
    => /\ cur.result = "formatted"
       /\ DeliveredAttempt(cur, "homework") => timestamp = PyInt(now)

-----------------------------------------------------------------------------
\* C18: get_api_answer turns the outcome of its one request into a
\* ConnectionError that holds the cause when the request failed, else into an
\* ApiHomeworkError that holds the status code when the code is not 200,
\* whatever the body, else into a ValueError when the body cannot be decoded,
\* and returns the decoded body only for a 200 with a decodable body.
C18_ClassifiedInOrder ==
  (call.fn = "get_api_answer" /\ ret.done) =>
    LET net == call.arg
        o == ret.out
    IN /\ net.failed => (Rejected(o, "ConnectionError") /\ IsIn(net.cause, o.exc.args))
       /\ (~net.failed /\ net.status_code # 200)
            => /\ Rejected(o, "ApiHomeworkError")
               /\ IsIn(<<ToString(net.status_code)>>, o.exc.args)
       /\ (~net.failed /\ net.status_code = 200 /\ net.json.raised)
            => Rejected(o, "ValueError")
       /\ ~o.raised <=> (~net.failed /\ net.status_code = 200 /\ ~net.json.raised)
       /\ ~o.raised => o.value = net.json.value

C18_Witness ==
  /\ call.fn = "get_api_answer" /\ ret.done
  /\ ~call.arg.failed /\ call.arg.status_code = 404 /\ call.arg.json.raised
  /\ ret.out = Raise("ApiHomeworkError", <<"HTTP_STATUS: ", "404", ". EXPECTED: ", "200">>)

-----------------------------------------------------------------------------
\* C19: a cycle calls bot.send_message at most once: for the notification of
\* the first record of `homeworks`, and then the fetch, the validation and the
\* formatting of that cycle succeeded, or for a diagnostic, or not at all.
C19_OneAttemptFirstRecord ==
  /\ \A c \in Cycles :
       /\ Len(c.attempts) <= 1
       /\ \A i \in DOMAIN c.attempts :
            /\ c.attempts[i].text = c.text
            /\ c.attempts[i].kind = "homework" => c.result = "formatted"
            /\ c.attempts[i].kind = "diagnostic" => c.result = "failure"
       /\ c.result = "formatted" => c.failed_in = "none"
  /\ (pc \in {"deliver", "sleep"} /\ cur.result = "formatted")
       => /\ ~get_api_answer([failed |-> FALSE, status_code |-> 200,
                              json |-> Return(response)]).raised
          /\ ~check_response(response, keyOrder).raised
          /\ parse_status(response.d["homeworks"].l[1]) = Return(cur.text)

C19_Witness ==
  /\ pc = "sleep"
  /\ Attempts(prev, "diagnostic") # {}
  /\ cur.result = "formatted"
  /\ Len(response.d["homeworks"].l) = 2
  /\ cur.attempts =
       <<[kind |-> "homework", delivered |-> TRUE,
          text |-> <<"STATUS_CHANGED \"", "hw1", "\". ", "VERDICT_REJECTED">>]>>

-----------------------------------------------------------------------------
\* C20: when a cycle is over, the last-sent text is the text of the call of
\* bot.send_message the cycle made, whether a notification or a diagnostic,
\* and the text the cycle started with if it made none; a cycle that ends in a
\* diagnostic leaves the cursor as it was.
C20_SharedSlot ==
  /\ (cur.polled /\ CycleOver)
       => /\ cur.attempts # <<>> => sended_message = cur.attempts[Len(cur.attempts)].text
          /\ cur.attempts = <<>> => sended_message = cur.last_sent
          /\ cur.result = "failure" => timestamp = cur.cursor
  /\ (prev.polled /\ cur.polled)
       => /\ prev.attempts # <<>> => cur.last_sent = prev.attempts[Len(prev.attempts)].text
          /\ prev.attempts = <<>> => cur.last_sent = prev.last_sent
          /\ prev.result = "failure" => cur.cursor = prev.cursor

C20_Witness ==
  /\ prev.polled /\ CycleOver
  /\ FailedAttempt(prev, "diagnostic") /\ cur.last_sent = prev.text
  /\ DeliveredAttempt(cur, "homework") /\ sended_message = cur.text
  /\ prev.last_sent # <<>> /\ prev.last_sent # prev.text

====
